---- MODULE Spec2Model ----
(***************************************************************************)
(* Terraform notification middleware (src/notifications/notifications.py). *)
(*                                                                         *)
(* The three Flask webhook handlers, the signature policy, the payload     *)
(* classifier, the workspace extraction and the run dispatcher are         *)
(* modelled as they are written.  JSON documents are tagged values, Python *)
(* exceptions are explicit results, the HMAC-SHA512 hex digest is a        *)
(* symbolic (collision-free) constructor, and the remote API's answer to   *)
(* POST /runs is chosen by the environment.                                *)
(***************************************************************************)
EXTENDS Naturals, Sequences, FiniteSets, TLC

VARIABLES
    env,        \* os.environ of the process (read by TerraformConfig.from_env)
    pc,         \* per worker: "idle", "received", "calling", "done"
    request,    \* per worker: the flask request being handled
    frame,      \* per worker: locals of the handler that survive the outbound call
    outbox,     \* per worker: run documents POSTed to /api/v2/runs for this request
    response,   \* per worker: the (status, JSON body) returned by the handler
    fn_in,      \* input of the pure function under test (function specifications)
    fn_out      \* its result

vars == <<env, pc, request, frame, outbox, response, fn_in, fn_out>>

(***************************************************************************)
(* Bounds                                                                  *)
(***************************************************************************)
MaxNotifications == 2      \* longest "notifications" array that is enumerated

(***************************************************************************)
(* JSON documents and Python values                                        *)
(***************************************************************************)
JNull   == [type |-> "null"]
JStr(s) == [type |-> "string", value |-> s]
JObj(m) == [type |-> "object", members |-> m]
JArr(x) == [type |-> "array", items |-> x]

EmptyMap == <<>>

\* bool(v) of a parsed JSON value
Truthy(v) ==
    CASE v.type = "null"   -> FALSE
      [] v.type = "string" -> v.value # ""
      [] v.type = "object" -> DOMAIN v.members # {}
      [] v.type = "array"  -> v.items # <<>>

IsDict(v) == v.type = "object"

\* dict.get(key, default); the caller has established IsDict(d)
Get(d, key, default) ==
    IF key \in DOMAIN d.members THEN d.members[key] ELSE default

\* str(v) as an f-string renders it
Fmt(v) ==
    CASE v.type = "null"   -> "None"
      [] v.type = "string" -> v.value
      [] OTHER             -> "<repr>"

\* result of a call: a value, or a raised exception with its str()
Ok(v)           == [exc |-> "none", msg |-> "", val |-> v]
Raise(e, m)     == [exc |-> e, msg |-> m, val |-> JNull]
Raised(r)       == r.exc # "none"

(***************************************************************************)
(* Strings whose characters the code inspects (str.lower, the in operator, *)
(* str.capitalize): TLC has no character access, so each such string is    *)
(* listed with its characters.                                             *)
(***************************************************************************)
Chars ==
    (""                    :> <<>>) @@
    ("apply"               :> <<"a","p","p","l","y">>) @@
    ("destroy"             :> <<"d","e","s","t","r","o","y">>) @@
    ("teardown"            :> <<"t","e","a","r","d","o","w","n">>) @@
    ("please teardown env" :> <<"p","l","e","a","s","e"," ","t","e","a","r","d","o","w","n"," ","e","n","v">>) @@
    ("DESTROY it"          :> <<"D","E","S","T","R","O","Y"," ","i","t">>) @@
    ("deploy v2"           :> <<"d","e","p","l","o","y"," ","v","2">>) @@
    ("true"                :> <<"t","r","u","e">>) @@
    ("TRUE"                :> <<"T","R","U","E">>) @@
    ("false"               :> <<"f","a","l","s","e">>) @@
    ("no"                  :> <<"n","o">>)

LowerChar ==
    [c \in {"D","E","S","T","R","O","Y","U"} |->
        CASE c = "D" -> "d" [] c = "E" -> "e" [] c = "S" -> "s" [] c = "T" -> "t"
          [] c = "R" -> "r" [] c = "O" -> "o" [] c = "Y" -> "y" [] c = "U" -> "u"]

\* str.lower(), on the characters
Lower(cs) == [i \in 1..Len(cs) |-> IF cs[i] \in DOMAIN LowerChar THEN LowerChar[cs[i]] ELSE cs[i]]

\* needle in haystack, on the characters
Contains(haystack, needle) ==
    \E i \in 0..Len(haystack) :
        /\ i + Len(needle) <= Len(haystack)
        /\ \A j \in 1..Len(needle) : haystack[i + j] = needle[j]

\* str.capitalize() of the two action names
Capitalize(s) == CASE s = "apply" -> "Apply" [] s = "destroy" -> "Destroy"

(***************************************************************************)
(* Raw request bodies, signatures and the HMAC                             *)
(***************************************************************************)
\* A raw body is the bytes received: either the encoding of a JSON document
\* or bytes that json.loads rejects (the empty body included).
Encoded(doc)    == [wellformed |-> TRUE,  text |-> "", doc |-> doc]
Malformed(text) == [wellformed |-> FALSE, text |-> text, doc |-> JNull]

\* A header value: literal text, or the hex digest of an HMAC-SHA512.
Text(s, isAscii) == [kind |-> "text", text |-> s, ascii |-> isAscii,
                     key |-> "", data |-> Malformed("")]
HmacSha512Hex(key, data) == [kind |-> "hmac-sha512-hex", text |-> "", ascii |-> TRUE,
                             key |-> key, data |-> data]

\* hmac.compare_digest(a, b) on two str: TypeError unless both are ASCII
compare_digest(a, b) ==
    IF ~a.ascii \/ ~b.ascii
    THEN Raise("TypeError", "comparing strings with non-ASCII characters is not supported")
    ELSE Ok(a = b)

SignatureHeader == "X-TFE-Notification-Signature"

(***************************************************************************)
(* TerraformConfig                                                         *)
(***************************************************************************)
\* os.environ.get(name): the value, or None
NoEnv == "<unset>"
EnvGet(e, name) == IF name \in DOMAIN e THEN e[name] ELSE NoEnv

from_env(e) ==
    LET token == EnvGet(e, "TFE_TOKEN") IN
    IF token = NoEnv \/ token = ""
    THEN Raise("ValueError", "TFE_TOKEN environment variable is required")
    ELSE LET aa == IF "TFE_AUTO_APPLY" \in DOMAIN e THEN e["TFE_AUTO_APPLY"] ELSE "false" IN
         Ok([api_token          |-> token,
             notification_token |-> EnvGet(e, "TFE_NOTIFICATION_TOKEN"),
             auto_apply         |-> Lower(Chars[aa]) \in {Chars["true"], <<"1">>, <<"y","e","s">>}])

(***************************************************************************)
(* NotificationProcessor                                                   *)
(***************************************************************************)
verify_signature(payload_body, signature, token) ==
    compare_digest(HmacSha512Hex(token, payload_body), signature)

MissingWorkspaceMsg == "workspace_id not found in notification payload"

\* variant: names missing from details fall back to the top-level ones
extract_workspace_info_merging(payload) ==
    LET workspace_id   == Get(payload, "workspace_id", JStr(""))
        workspace_name == Get(payload, "workspace_name", JStr(""))
        org_name       == Get(payload, "organization_name", JStr(""))
    IN  IF Truthy(workspace_id)
        THEN Ok(<<workspace_id, org_name, workspace_name>>)
        ELSE LET details == Get(payload, "details", JObj(EmptyMap)) IN
             IF Truthy(details) /\ IsDict(details) /\ Truthy(Get(details, "workspace_id", JStr("")))
             THEN Ok(<<Get(details, "workspace_id", JStr("")),
                       Get(details, "organization_name", org_name),
                       Get(details, "workspace_name", workspace_name)>>)
             ELSE Raise("ValueError", MissingWorkspaceMsg)

extract_workspace_info(payload) ==
    LET workspace_id   == Get(payload, "workspace_id", JStr(""))
        workspace_name == Get(payload, "workspace_name", JStr(""))
        org_name       == Get(payload, "organization_name", JStr(""))
    IN  IF Truthy(workspace_id)
        THEN Ok(<<workspace_id, org_name, workspace_name>>)
        ELSE LET details == Get(payload, "details", JObj(EmptyMap)) IN
             IF Truthy(details)
             THEN IF ~IsDict(details)
                  THEN Raise("AttributeError", "object has no attribute 'get'")
                  ELSE LET d_id   == Get(details, "workspace_id", JStr(""))
                           d_name == Get(details, "workspace_name", JStr(""))
                           d_org  == Get(details, "organization_name", JStr(""))
                       IN  IF Truthy(d_id)
                           THEN Ok(<<d_id, d_org, d_name>>)
                           ELSE Raise("ValueError", MissingWorkspaceMsg)
             ELSE \* the error log lists payload.get('details', {}).keys()
                  IF "details" \in DOMAIN payload.members /\ ~IsDict(details)
                  THEN Raise("AttributeError", "object has no attribute 'keys'")
                  ELSE Raise("ValueError", MissingWorkspaceMsg)

\* variant: the run context is tried before the trigger
run_message_for_run_first(payload, action) ==
    LET trigger              == Get(payload, "trigger", JStr(""))
        notification_message == Get(payload, "message", JStr(""))
        run_id               == Get(payload, "run_id", JStr(""))
        run_status           == Get(payload, "run_status", JStr(""))
        run_message          == Get(payload, "run_message", JStr(""))
    IN  IF Truthy(run_id)
        THEN "Triggered by notification from run " \o Fmt(run_id)
                 \o " (status: " \o Fmt(run_status) \o ")"
                 \o (IF Truthy(run_message)
                     THEN " - Previous run message: " \o Fmt(run_message)
                     ELSE "")
        ELSE IF Truthy(trigger)
        THEN "Triggered by " \o Fmt(trigger) \o ": " \o Fmt(notification_message)
        ELSE "Triggered by notification middleware - " \o action

\* the message process_notification builds for the new run
run_message_for(payload, action) ==
    LET trigger              == Get(payload, "trigger", JStr(""))
        notification_message == Get(payload, "message", JStr(""))
        run_id               == Get(payload, "run_id", JStr(""))
        run_status           == Get(payload, "run_status", JStr(""))
        run_message          == Get(payload, "run_message", JStr(""))
    IN  IF Truthy(trigger)
        THEN "Triggered by " \o Fmt(trigger) \o ": " \o Fmt(notification_message)
        ELSE IF Truthy(run_id)
        THEN "Triggered by notification from run " \o Fmt(run_id)
                 \o " (status: " \o Fmt(run_status) \o ")"
                 \o (IF Truthy(run_message)
                     THEN " - Previous run message: " \o Fmt(run_message)
                     ELSE "")
        ELSE "Triggered by notification middleware - " \o action

\* the document TerraformClient.create_run POSTs to /api/v2/runs
create_run_data(workspace_id, run_type, message, is_destroy, auto_apply) ==
    [is_destroy   |-> is_destroy \/ run_type = "destroy",
     message      |-> IF message # "" THEN message
                      ELSE "Triggered by notification middleware - " \o run_type,
     auto_apply   |-> auto_apply,
     workspace_id |-> workspace_id]

\* variant: the run is always created as an apply
process_notification_always_apply(payload, action, auto_apply) ==
    LET info == extract_workspace_info(payload) IN
    IF Raised(info) THEN info
    ELSE Ok(create_run_data(info.val[1], "apply", run_message_for(payload, action),
                            FALSE, auto_apply))

\* process_notification up to the outbound call: the run document, or the
\* exception raised by the extraction
process_notification(payload, action, auto_apply) ==
    LET info == extract_workspace_info(payload) IN
    IF Raised(info) THEN info
    ELSE Ok(create_run_data(info.val[1], action, run_message_for(payload, action),
                            action = "destroy", auto_apply))

(***************************************************************************)
(* is_verification_request                                                 *)
(***************************************************************************)
RECURSIVE ScanNotifications(_, _)
\* the for loop over the notifications, from element i on
ScanNotifications(items, i) ==
    IF i > Len(items) THEN Ok(FALSE)
    ELSE IF ~IsDict(items[i]) THEN Raise("AttributeError", "object has no attribute 'get'")
    ELSE IF Get(items[i], "trigger", JStr("")) = JStr("verification") THEN Ok(TRUE)
    ELSE ScanNotifications(items, i + 1)

\* variant: a top-level trigger "verification" also counts
is_verification_request_top_level(payload) ==
    IF ~IsDict(payload) THEN Raise("AttributeError", "object has no attribute 'keys'")
    ELSE LET notifications == Get(payload, "notifications", JArr(<<>>))
             scanned == IF Truthy(notifications) /\ notifications.type = "array"
                        THEN ScanNotifications(notifications.items, 1)
                        ELSE Ok(FALSE)
         IN  IF Raised(scanned) \/ scanned.val THEN scanned
             ELSE Ok(Get(payload, "trigger", JStr("")) = JStr("verification"))

is_verification_request(payload) ==
    IF ~IsDict(payload) THEN Raise("AttributeError", "object has no attribute 'keys'")
    ELSE LET notifications == Get(payload, "notifications", JArr(<<>>)) IN
         IF Truthy(notifications)
         THEN IF notifications.type = "array"
              THEN ScanNotifications(notifications.items, 1)
              ELSE \* iterating a str or a dict yields str elements
                   Raise("AttributeError", "'str' object has no attribute 'get'")
         ELSE Ok(FALSE)

(***************************************************************************)
(* verify_notification_signature                                           *)
(***************************************************************************)
\* its three kinds of result: None, (True, message), (False, message)
PyNone            == [none |-> TRUE,  valid |-> FALSE, message |-> ""]
Verdict(ok, text) == [none |-> FALSE, valid |-> ok,    message |-> text]

EmptyHeaderMsg   == "Empty X-TFE-Notification-Signature header"
MissingHeaderMsg == "Missing X-TFE-Notification-Signature header"

\* request.headers.get(name, "")
HeaderGet(req, name) ==
    IF name \in DOMAIN req.headers THEN req.headers[name] ELSE Text("", TRUE)

\* variant: only an unset token skips the check, an empty one does not
verify_notification_signature_is_none(config, req, is_verification) ==
    IF config.notification_token = NoEnv
    THEN Ok(PyNone)
    ELSE LET signature == HeaderGet(req, SignatureHeader) IN
         IF signature = Text("", TRUE)
         THEN IF is_verification THEN Ok(PyNone)
              ELSE Ok(Verdict(FALSE, EmptyHeaderMsg))
         ELSE LET matches == verify_signature(req.data, signature, config.notification_token) IN
              IF Raised(matches) THEN matches
              ELSE IF ~matches.val THEN Ok(Verdict(FALSE, "Invalid signature"))
              ELSE Ok(Verdict(TRUE, "Signature valid"))

verify_notification_signature(config, req, is_verification) ==
    IF config.notification_token = NoEnv \/ config.notification_token = ""
    THEN Ok(PyNone)
    ELSE LET signature == HeaderGet(req, SignatureHeader) IN
         IF signature = Text("", TRUE)
         THEN IF is_verification THEN Ok(PyNone)
              ELSE Ok(Verdict(FALSE, EmptyHeaderMsg))
         ELSE IF signature.kind = "text" /\ signature.text = ""
         THEN Ok(Verdict(FALSE, MissingHeaderMsg))
         ELSE LET matches == verify_signature(req.data, signature, config.notification_token) IN
              IF Raised(matches) THEN matches
              ELSE IF ~matches.val THEN Ok(Verdict(FALSE, "Invalid signature"))
              ELSE Ok(Verdict(TRUE, "Signature valid"))

(***************************************************************************)
(* The webhook handlers                                                    *)
(***************************************************************************)
\* flask's request.json.  A body that json.loads rejects raises BadRequest.
\* Without a JSON content type the result depends on the installed Flask:
\* None before 2.1, an HTTPException (400, later 415) from 2.1 on.
get_json(req, legacyFlask) ==
    IF ~req.json_mimetype
    THEN IF legacyFlask THEN Ok(JNull)
         ELSE Raise("HTTPException", "Unsupported Media Type")
    ELSE IF ~req.data.wellformed
    THEN Raise("HTTPException", "Failed to decode JSON object")
    ELSE Ok(req.data.doc)

\* jsonify(...) with its status code
Respond(status, body) == [kind |-> "respond", status |-> status, body |-> body,
                          config |-> JNull, payload |-> JNull]
Continue(config, payload) == [kind |-> "continue", status |-> 0, body |-> EmptyMap,
                              config |-> config, payload |-> payload]

ErrorBody(text) == "error" :> text

\* variant: the 500 envelope carries the exception text
handle_exception_verbatim(r) ==
    IF r.exc \in {"ValueError", "JSONDecodeError"}
    THEN Respond(400, ErrorBody(r.msg))
    ELSE Respond(500, ErrorBody(r.msg))

\* the two except clauses that close every handler
handle_exception(r) ==
    IF r.exc \in {"ValueError", "JSONDecodeError"}
    THEN Respond(400, ErrorBody(r.msg))
    ELSE Respond(500, ErrorBody("Internal server error"))

VerificationBody ==
    ("status" :> "success") @@ ("message" :> "Webhook verified successfully")
        @@ ("type" :> "verification")

\* variant: the verdict of the signature check is computed but not enforced
webhook_preamble_ignores_verdict(req, e, legacyFlask) ==
    LET parsed == get_json(req, legacyFlask) IN
    IF Raised(parsed) THEN handle_exception(parsed)
    ELSE LET payload == parsed.val IN
    IF ~Truthy(payload) THEN Respond(400, ErrorBody("No payload provided"))
    ELSE LET is_verification == is_verification_request(payload) IN
    IF Raised(is_verification) THEN handle_exception(is_verification)
    ELSE IF is_verification.val THEN Respond(200, VerificationBody)
    ELSE LET config == from_env(e) IN
    IF Raised(config) THEN handle_exception(config)
    ELSE LET verification_result ==
                 verify_notification_signature(config.val, req, is_verification.val) IN
    IF Raised(verification_result) THEN handle_exception(verification_result)
    ELSE Continue(config.val, payload)

\* variant: the signature is enforced before the probe is looked for
webhook_preamble_verifies_first(req, e, legacyFlask) ==
    LET parsed == get_json(req, legacyFlask) IN
    IF Raised(parsed) THEN handle_exception(parsed)
    ELSE LET payload == parsed.val IN
    IF ~Truthy(payload) THEN Respond(400, ErrorBody("No payload provided"))
    ELSE LET config == from_env(e) IN
    IF Raised(config) THEN handle_exception(config)
    ELSE LET verification_result == verify_notification_signature(config.val, req, FALSE) IN
    IF Raised(verification_result) THEN handle_exception(verification_result)
    ELSE IF ~verification_result.val.none /\ ~verification_result.val.valid
    THEN Respond(401, ErrorBody("Unauthorized: " \o verification_result.val.message))
    ELSE LET is_verification == is_verification_request(payload) IN
    IF Raised(is_verification) THEN handle_exception(is_verification)
    ELSE IF is_verification.val THEN Respond(200, VerificationBody)
    ELSE Continue(config.val, payload)

\* the part the three handlers share: payload, probe, configuration, signature
webhook_preamble(req, e, legacyFlask) ==
    LET parsed == get_json(req, legacyFlask) IN
    IF Raised(parsed) THEN handle_exception(parsed)
    ELSE LET payload == parsed.val IN
    IF ~Truthy(payload) THEN Respond(400, ErrorBody("No payload provided"))
    ELSE LET is_verification == is_verification_request(payload) IN
    IF Raised(is_verification) THEN handle_exception(is_verification)
    ELSE IF is_verification.val THEN Respond(200, VerificationBody)
    ELSE LET config == from_env(e) IN
    IF Raised(config) THEN handle_exception(config)
    ELSE LET verification_result ==
                 verify_notification_signature(config.val, req, is_verification.val) IN
    IF Raised(verification_result) THEN handle_exception(verification_result)
    ELSE IF ~verification_result.val.none /\ ~verification_result.val.valid
    THEN Respond(401, ErrorBody("Unauthorized: " \o verification_result.val.message))
    ELSE Continue(config.val, payload)

\* variant: an errored run is retried with apply before the message is looked at
conditional_action_errored_first(payload) ==
    LET run_status  == Get(payload, "run_status", JStr(""))
        run_message == Get(payload, "run_message", JStr(""))
    IN  IF run_message.type # "string"
        THEN Raise("AttributeError", "object has no attribute 'lower'")
        ELSE LET lowered == Lower(Chars[run_message.value]) IN
             IF run_status = JStr("errored") THEN Ok("apply")
             ELSE IF Contains(lowered, Chars["destroy"]) \/ Contains(lowered, Chars["teardown"])
             THEN Ok("destroy")
             ELSE Ok("apply")

\* the action /webhook/conditional chooses
conditional_action(payload) ==
    LET run_status  == Get(payload, "run_status", JStr(""))
        run_message == Get(payload, "run_message", JStr(""))
    IN  IF run_message.type # "string"
        THEN Raise("AttributeError", "object has no attribute 'lower'")
        ELSE LET lowered == Lower(Chars[run_message.value]) IN
             IF Contains(lowered, Chars["destroy"]) \/ Contains(lowered, Chars["teardown"])
             THEN Ok("destroy")
             ELSE IF run_status = JStr("errored") THEN Ok("apply")
             ELSE Ok("apply")

NoFrame == [action |-> "none", outcome |-> "none"]

\* variant: the payload is kept in one slot the in-flight requests share
Dispatch_shared_payload(w, pre, action) ==
    LET holder  == CHOOSE v \in DOMAIN request : pc[v] = "received"
        held    == request[holder].data.doc
        payload == IF IsDict(held) THEN held ELSE pre.payload
        run     == process_notification(payload, action, pre.config.auto_apply)
    IN  IF Raised(run)
        THEN /\ response' = [response EXCEPT ![w] = handle_exception(run)]
             /\ pc' = [pc EXCEPT ![w] = "done"]
             /\ UNCHANGED <<frame, outbox>>
        ELSE /\ outbox' = [outbox EXCEPT ![w] = Append(@, run.val)]
             /\ frame' = [frame EXCEPT ![w] = [action |-> action, outcome |-> "none"]]
             /\ pc' = [pc EXCEPT ![w] = "calling"]
             /\ UNCHANGED response

\* a handler up to (and including) the POST of the run document
Dispatch(w, pre, action) ==
    LET run == process_notification(pre.payload, action, pre.config.auto_apply) IN
    IF Raised(run)
    THEN /\ response' = [response EXCEPT ![w] = handle_exception(run)]
         /\ pc' = [pc EXCEPT ![w] = "done"]
         /\ UNCHANGED <<frame, outbox>>
    ELSE /\ outbox' = [outbox EXCEPT ![w] = Append(@, run.val)]
         /\ frame' = [frame EXCEPT ![w] = [action |-> action, outcome |-> "none"]]
         /\ pc' = [pc EXCEPT ![w] = "calling"]
         /\ UNCHANGED response

Reply(w, r) ==
    /\ response' = [response EXCEPT ![w] = r]
    /\ pc' = [pc EXCEPT ![w] = "done"]
    /\ UNCHANGED <<frame, outbox>>

trigger_apply(w) ==
    /\ pc[w] = "received"
    /\ request[w].endpoint = "/webhook/apply"
    /\ \E legacyFlask \in BOOLEAN :
         LET pre == webhook_preamble(request[w], env, legacyFlask) IN
         IF pre.kind = "respond" THEN Reply(w, pre)
         ELSE Dispatch(w, pre, "apply")
    /\ UNCHANGED <<env, request, fn_in, fn_out>>

trigger_destroy(w) ==
    /\ pc[w] = "received"
    /\ request[w].endpoint = "/webhook/destroy"
    /\ \E legacyFlask \in BOOLEAN :
         LET pre == webhook_preamble(request[w], env, legacyFlask) IN
         IF pre.kind = "respond" THEN Reply(w, pre)
         ELSE Dispatch(w, pre, "destroy")
    /\ UNCHANGED <<env, request, fn_in, fn_out>>

trigger_conditional(w) ==
    /\ pc[w] = "received"
    /\ request[w].endpoint = "/webhook/conditional"
    /\ \E legacyFlask \in BOOLEAN :
         LET pre == webhook_preamble(request[w], env, legacyFlask) IN
         IF pre.kind = "respond" THEN Reply(w, pre)
         ELSE LET action == conditional_action(pre.payload) IN
              IF Raised(action) THEN Reply(w, handle_exception(action))
              ELSE Dispatch(w, pre, action.val)
    /\ UNCHANGED <<env, request, fn_in, fn_out>>

(***************************************************************************)
(* The remote API answers POST /api/v2/runs                                *)
(***************************************************************************)
RemoteOutcomes == {"created", "no_data", "not_json", "http_error", "connection_error"}

NoRunId == "<None>"

\* session.post, raise_for_status, response.json() of create_run
create_run_result(outcome) ==
    CASE outcome = "created"  -> Ok(JObj("data" :> JObj("id" :> JStr("run-new"))))
      [] outcome = "no_data"  -> Ok(JObj(EmptyMap))
      [] outcome = "not_json" -> Raise("JSONDecodeError", "Expecting value: line 1 column 1 (char 0)")
      [] outcome = "http_error" -> Raise("HTTPError", "422 Client Error")
      [] outcome = "connection_error" -> Raise("ConnectionError", "Connection refused")

\* the success response each handler builds from the created run
success_response(endpoint, action, result) ==
    LET id     == Get(Get(result, "data", JObj(EmptyMap)), "id", JNull)
        run_id == IF id.type = "string" THEN id.value ELSE NoRunId
        base   == ("status" :> "success") @@ ("run_id" :> run_id)
    IN  CASE endpoint = "/webhook/apply" ->
               Respond(200, base @@ ("message" :> "Apply run created successfully"))
          [] endpoint = "/webhook/destroy" ->
               Respond(200, base @@ ("message" :> "Destroy run created successfully"))
          [] endpoint = "/webhook/conditional" ->
               Respond(200, base @@ ("action" :> action)
                   @@ ("message" :> Capitalize(action) \o " run created successfully"))

\* create_run returns or raises, and the handler answers
create_run_returns(w) ==
    /\ pc[w] = "calling"
    /\ \E outcome \in RemoteOutcomes :
         LET result == create_run_result(outcome) IN
         /\ response' = [response EXCEPT ![w] =
                IF Raised(result) THEN handle_exception(result)
                ELSE success_response(request[w].endpoint, frame[w].action, result.val)]
         /\ frame' = [frame EXCEPT ![w].outcome = outcome]
    /\ pc' = [pc EXCEPT ![w] = "done"]
    /\ UNCHANGED <<env, request, outbox, fn_in, fn_out>>

(***************************************************************************)
(* Inputs: environments, payloads, requests.  Payload members have the     *)
(* types of the platform's notification documents: strings (possibly       *)
(* empty), a details object, a notifications array of objects; null where  *)
(* the platform's verification document carries it.                        *)
(***************************************************************************)
\* an optional member: absent, or present with one of the values
Opt(key, values) == {EmptyMap} \cup {key :> v : v \in values}

Environments ==
    {t @@ n @@ a :
        t \in Opt("TFE_TOKEN", {"tfe-token"}),
        n \in Opt("TFE_NOTIFICATION_TOKEN", {"", "secret"}),
        a \in Opt("TFE_AUTO_APPLY", {"TRUE"})}

TopNames == ("workspace_name" :> JStr("prod")) @@ ("organization_name" :> JStr("acme"))
SubNames == ("workspace_name" :> JStr("drifted")) @@ ("organization_name" :> JStr("umbrella"))

DetailsObjects ==
    {JObj(i @@ n) :
        i \in Opt("workspace_id", {JStr(""), JStr("ws-456")}),
        n \in {EmptyMap, SubNames}}

\* payloads that differ in where the workspace is found
WorkspacePayloads ==
    {JObj(i @@ n @@ d) :
        i \in Opt("workspace_id", {JStr(""), JStr("ws-123")}),
        n \in {EmptyMap, TopNames},
        d \in Opt("details", DetailsObjects)}

\* payloads that differ in the context the run message is built from
MessagePayloads ==
    {JObj(("workspace_id" :> JStr("ws-123")) @@ t @@ m @@ r @@ s @@ rm) :
        t  \in Opt("trigger", {JStr(""), JStr("run:needs_attention")}),
        m  \in Opt("message", {JStr(""), JStr("drift detected")}),
        r  \in Opt("run_id", {JStr(""), JStr("run-abc")}),
        s  \in Opt("run_status", {JStr("errored")}),
        rm \in Opt("run_message", {JStr(""), JStr("deploy v2")})}

\* payloads that differ in what /webhook/conditional inspects
ConditionalPayloads ==
    {JObj(("workspace_id" :> JStr("ws-1")) @@ s @@ rm) :
        s  \in Opt("run_status", {JStr("errored"), JStr("applied")}),
        rm \in Opt("run_message", {JStr(""), JStr("please teardown env"),
                                   JStr("DESTROY it"), JStr("deploy v2")})}

NotificationElements ==
    {JObj(t) : t \in Opt("trigger", {JStr("verification"), JStr("run:completed")})}

RECURSIVE SeqsUpTo(_, _)
\* the sequences over S of length at most n
SeqsUpTo(S, n) ==
    IF n = 0 THEN {<<>>}
    ELSE LET shorter == SeqsUpTo(S, n - 1) IN
         shorter \cup {Append(q, x) : q \in shorter, x \in S}

\* payloads that differ in what the probe detection inspects
ProbePayloads ==
    {JObj(n @@ t @@ i) :
        n \in Opt("notifications",
                  {JArr(q) : q \in SeqsUpTo(NotificationElements, MaxNotifications)}),
        t \in Opt("trigger", {JStr("verification")}),
        i \in Opt("workspace_id", {JStr("ws-123")})}

\* the verification document the platform sends when a configuration is saved
PlatformProbe ==
    JObj(("payload_version" :> JStr("1")) @@ ("run_id" :> JNull) @@ ("run_message" :> JNull)
         @@ ("workspace_id" :> JNull) @@ ("workspace_name" :> JNull)
         @@ ("organization_name" :> JNull)
         @@ ("notifications" :> JArr(<<JObj(("message" :> JStr("Verification of test"))
                                            @@ ("trigger" :> JStr("verification"))
                                            @@ ("run_status" :> JNull))>>)))

Payloads == WorkspacePayloads \cup MessagePayloads \cup ConditionalPayloads
                \cup ProbePayloads \cup {PlatformProbe}

Endpoints == {"/webhook/apply", "/webhook/destroy", "/webhook/conditional"}

\* the bodies against which every header and content type is tried
CoreBodies ==
    {Malformed(""), Malformed("{not json"), Encoded(JNull), Encoded(JObj(EmptyMap)),
     Encoded(JObj("notifications" :> JArr(<<JObj("trigger" :> JStr("verification"))>>))),
     Encoded(JObj(("workspace_id" :> JStr("ws-123")) @@ ("trigger" :> JStr("run:needs_attention"))
                      @@ ("message" :> JStr("drift detected")))),
     Encoded(JObj("run_id" :> JStr("run-abc")))}

\* the signature headers a client may send with a body
SignatureHeaders(data) ==
    Opt(SignatureHeader,
        {Text("", TRUE), Text("deadbeef", TRUE), Text("sign\\xe9", FALSE),
         HmacSha512Hex("secret", data), HmacSha512Hex("guess", data),
         HmacSha512Hex("secret", Encoded(JObj("workspace_id" :> JStr("ws-other"))))})

\* every content type and header on the core bodies; every payload, unsigned
\* and correctly signed
Requests ==
    UNION {
        {[endpoint |-> ep, json_mimetype |-> mt, data |-> d, headers |-> h] :
            ep \in Endpoints, mt \in BOOLEAN, h \in SignatureHeaders(d)} :
        d \in CoreBodies}
    \cup
    UNION {
        {[endpoint |-> ep, json_mimetype |-> TRUE, data |-> Encoded(p), headers |-> h] :
            ep \in Endpoints,
            h \in {EmptyMap, SignatureHeader :> HmacSha512Hex("secret", Encoded(p))}} :
        p \in Payloads}

(***************************************************************************)
(* The server                                                              *)
(***************************************************************************)
Workers == {1}

NoRequest  == [endpoint |-> "", json_mimetype |-> FALSE, data |-> Malformed(""),
               headers |-> EmptyMap]
NoResponse == [kind |-> "none", status |-> 0, body |-> EmptyMap,
               config |-> JNull, payload |-> JNull]

Init ==
    /\ env \in Environments
    /\ pc = [w \in Workers |-> "idle"]
    /\ request = [w \in Workers |-> NoRequest]
    /\ frame = [w \in Workers |-> NoFrame]
    /\ outbox = [w \in Workers |-> <<>>]
    /\ response = [w \in Workers |-> NoResponse]
    /\ fn_in = JNull
    /\ fn_out = Ok(JNull)

\* a free worker takes the next request
Receive(w) ==
    /\ pc[w] = "idle"
    /\ \E r \in Requests : request' = [request EXCEPT ![w] = r]
    /\ pc' = [pc EXCEPT ![w] = "received"]
    /\ UNCHANGED <<env, frame, outbox, response, fn_in, fn_out>>

\* the response has been sent: the request context is torn down
Release(w) ==
    /\ pc[w] = "done"
    /\ pc' = [pc EXCEPT ![w] = "idle"]
    /\ request' = [request EXCEPT ![w] = NoRequest]
    /\ frame' = [frame EXCEPT ![w] = NoFrame]
    /\ outbox' = [outbox EXCEPT ![w] = <<>>]
    /\ response' = [response EXCEPT ![w] = NoResponse]
    /\ UNCHANGED <<env, fn_in, fn_out>>

Next ==
    \E w \in Workers :
        \/ Receive(w)
        \/ trigger_apply(w)
        \/ trigger_destroy(w)
        \/ trigger_conditional(w)
        \/ create_run_returns(w)
        \/ Release(w)

Spec == Init /\ [][Next]_vars

(***************************************************************************)
(* The pure functions, applied to every payload                            *)
(***************************************************************************)
NotCalled == [fn |-> "none", result |-> Ok(JNull)]

InitFn ==
    /\ env = EmptyMap
    /\ pc = [w \in Workers |-> "idle"]
    /\ request = [w \in Workers |-> NoRequest]
    /\ frame = [w \in Workers |-> NoFrame]
    /\ outbox = [w \in Workers |-> <<>>]
    /\ response = [w \in Workers |-> NoResponse]
    /\ fn_in \in Payloads
    /\ fn_out = NotCalled

call_extract_workspace_info ==
    /\ fn_out.fn = "none"
    /\ fn_out' = [fn |-> "extract_workspace_info", result |-> extract_workspace_info(fn_in)]
    /\ UNCHANGED <<env, pc, request, frame, outbox, response, fn_in>>

call_is_verification_request ==
    /\ fn_out.fn = "none"
    /\ fn_out' = [fn |-> "is_verification_request", result |-> is_verification_request(fn_in)]
    /\ UNCHANGED <<env, pc, request, frame, outbox, response, fn_in>>

NextFn == call_extract_workspace_info \/ call_is_verification_request

SpecFn == InitFn /\ [][NextFn]_vars

(***************************************************************************)
(* Vocabulary of the properties                                            *)
(***************************************************************************)
\* the string held by a member of a document, "" when it holds none
Field(doc, key) ==
    IF key \in DOMAIN doc.members /\ doc.members[key].type = "string"
    THEN doc.members[key].value ELSE ""

\* the request carries a non-empty JSON object
HasPayload(req) ==
    /\ req.json_mimetype
    /\ req.data.wellformed
    /\ req.data.doc.type = "object"
    /\ DOMAIN req.data.doc.members # {}

\* the payload is a verification probe: a notifications array with an
\* element whose trigger is "verification"
IsProbe(doc) ==
    /\ "notifications" \in DOMAIN doc.members
    /\ doc.members["notifications"].type = "array"
    /\ \E i \in 1..Len(doc.members["notifications"].items) :
           Field(doc.members["notifications"].items[i], "trigger") = "verification"

\* a workspace id can be resolved from the payload
WorkspaceResolvable(doc) ==
    \/ Field(doc, "workspace_id") # ""
    \/ /\ "details" \in DOMAIN doc.members
       /\ doc.members["details"].type = "object"
       /\ Field(doc.members["details"], "workspace_id") # ""

ApiTokenSet  == "TFE_TOKEN" \in DOMAIN env /\ env["TFE_TOKEN"] # ""
SecretSet    == "TFE_NOTIFICATION_TOKEN" \in DOMAIN env /\ env["TFE_NOTIFICATION_TOKEN"] # ""
Secret       == env["TFE_NOTIFICATION_TOKEN"]

HeaderSent(req)  == SignatureHeader \in DOMAIN req.headers
HeaderEmpty(req) == HeaderSent(req) /\ req.headers[SignatureHeader] = Text("", TRUE)
\* the header carries the hex HMAC-SHA512 of the raw body under the secret
HeaderValid(req) == HeaderSent(req) /\ req.headers[SignatureHeader] = HmacSha512Hex(Secret, req.data)

Answered(w, status) == pc[w] = "done" /\ response[w].status = status
IsErrorEnvelope(w)  == DOMAIN response[w].body = {"error"}

\* a non-probe notification that reaches the signature policy
Notification(w) ==
    /\ pc[w] # "idle"
    /\ ApiTokenSet
    /\ HasPayload(request[w])
    /\ ~IsProbe(request[w].data.doc)

(***************************************************************************)
(* C1: with a secret configured, a non-probe notification whose signature  *)
(* header is non-empty and is not the hex HMAC-SHA512 of the raw body      *)
(* under the secret is answered 401 with an error envelope, never 200.     *)
(* (Stated for requests that carry a payload and a process that has its    *)
(* API token, the cases in which the signature is looked at.)              *)
(***************************************************************************)
C1_BadSignatureIs401 ==
    \A w \in Workers :
        (/\ pc[w] = "done"
         /\ SecretSet
         /\ Notification(w)
         /\ HeaderSent(request[w]) /\ ~HeaderEmpty(request[w]) /\ ~HeaderValid(request[w]))
        => /\ response[w].status = 401
           /\ IsErrorEnvelope(w)

(***************************************************************************)
(* C2: a verification probe is answered 200 with status "success" and type *)
(* "verification" and no run is created, on every endpoint, whatever the   *)
(* environment and whatever the signature header.                          *)
(***************************************************************************)
C2_ProbeExempt ==
    \A w \in Workers :
        (HasPayload(request[w]) /\ IsProbe(request[w].data.doc))
        => /\ outbox[w] = <<>>
           /\ pc[w] # "calling"
           /\ pc[w] = "done" =>
                 /\ response[w].status = 200
                 /\ DOMAIN response[w].body = {"status", "message", "type"}
                 /\ response[w].body["status"] = "success"
                 /\ response[w].body["type"] = "verification"

\* a probe with a wrong, non-empty signature was answered while a secret is configured
C2_Witness ==
    \E w \in Workers :
        /\ Answered(w, 200)
        /\ SecretSet
        /\ HasPayload(request[w]) /\ IsProbe(request[w].data.doc)
        /\ HeaderSent(request[w]) /\ ~HeaderEmpty(request[w]) /\ ~HeaderValid(request[w])
        /\ request[w].endpoint = "/webhook/destroy"

(***************************************************************************)
(* C3: with a secret configured and a non-probe notification, an empty     *)
(* signature header fails with the "empty header" reason and an absent     *)
(* header fails with the "missing header" reason.                          *)
(***************************************************************************)
C3_MissingDistinctFromEmpty ==
    \A w \in Workers :
        (pc[w] = "done" /\ SecretSet /\ Notification(w))
        => /\ HeaderEmpty(request[w]) =>
                 response[w].body = ErrorBody("Unauthorized: " \o EmptyHeaderMsg)
           /\ ~HeaderSent(request[w]) =>
                 response[w].body = ErrorBody("Unauthorized: " \o MissingHeaderMsg)

(***************************************************************************)
(* C4: without a secret, verify_notification_signature returns None (no    *)
(* verdict), no request is answered 401, and a non-probe notification with *)
(* a resolvable workspace id is dispatched whatever its signature header.  *)
(***************************************************************************)
C4_NoSecretSkipsVerification ==
    \A w \in Workers :
        ~SecretSet =>
            /\ response[w].status # 401
            /\ (pc[w] # "idle" /\ ApiTokenSet) =>
                   verify_notification_signature(from_env(env).val, request[w], FALSE) = Ok(PyNone)
            /\ (Notification(w) /\ WorkspaceResolvable(request[w].data.doc)
                    /\ pc[w] \in {"calling", "done"}) =>
                   Len(outbox[w]) = 1

\* without a secret, a notification with an arbitrary signature header created a run
C4_Witness ==
    \E w \in Workers :
        /\ ~SecretSet
        /\ Answered(w, 200)
        /\ Notification(w)
        /\ HeaderSent(request[w]) /\ request[w].headers[SignatureHeader] = Text("deadbeef", TRUE)
        /\ Len(outbox[w]) = 1

(***************************************************************************)
(* C5: 400 only for a missing payload or an unresolvable workspace id, 401 *)
(* only for a failed signature check, 500 for every other failure.         *)
(***************************************************************************)
PayloadMissing(req) == ~HasPayload(req)

SignatureCheckFailed(req) ==
    SecretSet /\ ~HeaderValid(req)

C5_StatusCodes ==
    \A w \in Workers :
        pc[w] = "done" =>
            /\ response[w].status = 400 =>
                   \/ PayloadMissing(request[w])
                   \/ ~WorkspaceResolvable(request[w].data.doc)
            /\ response[w].status = 401 => SignatureCheckFailed(request[w])
            /\ (/\ response[w].status # 200
                /\ ~PayloadMissing(request[w])
                /\ WorkspaceResolvable(request[w].data.doc)
                /\ ~SignatureCheckFailed(request[w])) => response[w].status = 500

(***************************************************************************)
(* C6: a request whose body is absent or is not valid JSON is answered 400 *)
(* by each endpoint.  (Stated for requests sent with a JSON content type,  *)
(* where the answer does not depend on the installed Flask.)               *)
(***************************************************************************)
C6_MalformedBodyIs400 ==
    \A w \in Workers :
        (pc[w] = "done" /\ request[w].json_mimetype /\ ~request[w].data.wellformed)
        => response[w].status = 400

(***************************************************************************)
(* C7: extract_workspace_info consults exactly one level: a top-level      *)
(* workspace_id gives that id with the top-level names and details is      *)
(* ignored; otherwise details.workspace_id gives the nested id with the    *)
(* names of details only; with no id at either level it raises the         *)
(* missing-workspace error.                                                *)
(***************************************************************************)
HasDetails(doc) == "details" \in DOMAIN doc.members /\ doc.members["details"].type = "object"

C8_ProbeIffNotificationElement ==
    fn_out.fn = "is_verification_request" =>
        /\ fn_out.result.exc = "none"
        /\ fn_out.result.val = IsProbe(fn_in)

\* a top-level trigger "verification" beside notifications without one: not a probe
C8_Witness ==
    /\ fn_out.fn = "is_verification_request"
    /\ Field(fn_in, "trigger") = "verification"
    /\ "notifications" \in DOMAIN fn_in.members
    /\ Len(fn_in.members["notifications"].items) = 2
    /\ fn_out.result.exc = "none"
    /\ fn_out.result.val = FALSE

(***************************************************************************)
(* C9: the message of the run document is chosen by first match: trigger,  *)
(* then run_id (with the previous run message appended only when it is     *)
(* non-empty), then the middleware default naming the action; the          *)
(* gateway's default never replaces it.                                    *)
(***************************************************************************)
\* the action of the handler that serves the request
ChosenAction(w) ==
    CASE request[w].endpoint = "/webhook/apply"       -> "apply"
      [] request[w].endpoint = "/webhook/destroy"     -> "destroy"
      [] request[w].endpoint = "/webhook/conditional" -> frame[w].action

ExpectedMessage(doc, action) ==
    CASE Field(doc, "trigger") # "" ->
             "Triggered by " \o Field(doc, "trigger") \o ": " \o Field(doc, "message")
      [] Field(doc, "trigger") = "" /\ Field(doc, "run_id") # "" /\ Field(doc, "run_message") # "" ->
             "Triggered by notification from run " \o Field(doc, "run_id")
                 \o " (status: " \o Field(doc, "run_status") \o ")"
                 \o " - Previous run message: " \o Field(doc, "run_message")
      [] Field(doc, "trigger") = "" /\ Field(doc, "run_id") # "" /\ Field(doc, "run_message") = "" ->
             "Triggered by notification from run " \o Field(doc, "run_id")
                 \o " (status: " \o Field(doc, "run_status") \o ")"
      [] OTHER ->
             "Triggered by notification middleware - " \o action

C9_MessageByFirstMatch ==
    \A w \in Workers :
        outbox[w] # <<>> =>
            outbox[w][1].message = ExpectedMessage(request[w].data.doc, ChosenAction(w))

\* trigger and run_id are both present and the trigger form was sent
C9_Witness ==
    \E w \in Workers :
        /\ outbox[w] # <<>>
        /\ Field(request[w].data.doc, "run_id") = "run-abc"
        /\ outbox[w][1].message = "Triggered by run:needs_attention: drift detected"

(***************************************************************************)
(* C10: is-destroy of the run document is true exactly when the action     *)
(* chosen for the request is destroy: false on /webhook/apply, true on     *)
(* /webhook/destroy, the conditional decision on /webhook/conditional.     *)
(***************************************************************************)
C10_IsDestroyIffDestroy ==
    \A w \in Workers :
        outbox[w] # <<>> =>
            /\ outbox[w][1].is_destroy = (ChosenAction(w) = "destroy")
            /\ request[w].endpoint = "/webhook/conditional" =>
                   frame[w].action = conditional_action(request[w].data.doc).val

\* /webhook/conditional decided to destroy and the run document says so
C10_Witness ==
    \E w \in Workers :
        /\ outbox[w] # <<>>
        /\ request[w].endpoint = "/webhook/conditional"
        /\ frame[w].action = "destroy"
        /\ outbox[w][1].is_destroy

(***************************************************************************)
(* C11: on /webhook/conditional the action is destroy exactly when         *)
(* run_message contains "destroy" or "teardown", and apply otherwise, also *)
(* when run_status is "errored"; the two words win over "errored".         *)
(***************************************************************************)
\* the text contains one of the two words as written
Mentions(text) ==
    Contains(Chars[text], Chars["destroy"]) \/ Contains(Chars[text], Chars["teardown"])

\* the text contains one of the two words in any letter case
MentionsAnyCase(text) ==
    Contains(Lower(Chars[text]), Chars["destroy"]) \/ Contains(Lower(Chars[text]), Chars["teardown"])

ConditionalDecided(w) ==
    /\ request[w].endpoint = "/webhook/conditional"
    /\ frame[w].action # "none"

RemoteFailures == {"http_error", "connection_error"}

C12_RemoteFailureIs500NoRetry ==
    \A w \in Workers :
        /\ Len(outbox[w]) <= 1
        /\ (pc[w] = "done" /\ frame[w].outcome \in RemoteFailures) =>
               /\ Len(outbox[w]) = 1
               /\ response[w].status = 500
               /\ response[w].body = ErrorBody("Internal server error")

\* the remote API refused the run and the request was answered 500
C12_Witness ==
    \E w \in Workers :
        /\ pc[w] = "done"
        /\ frame[w].outcome = "http_error"
        /\ Len(outbox[w]) = 1
        /\ response[w].status = 500

(***************************************************************************)
(* verify_signature, applied to bodies, presented signatures and tokens    *)
(***************************************************************************)
Tokens == {"secret", "guess", "rotated"}

PresentedSignatures ==
    {Text("", TRUE), Text("deadbeef", TRUE), Text("sign\\xe9", FALSE)}
        \cup {HmacSha512Hex(k, d) : k \in Tokens, d \in CoreBodies}

SignatureInputs ==
    {[payload_body |-> b, signature |-> g, token |-> t] :
        b \in CoreBodies, g \in PresentedSignatures, t \in Tokens}

InitSig ==
    /\ env = EmptyMap
    /\ pc = [w \in Workers |-> "idle"]
    /\ request = [w \in Workers |-> NoRequest]
    /\ frame = [w \in Workers |-> NoFrame]
    /\ outbox = [w \in Workers |-> <<>>]
    /\ response = [w \in Workers |-> NoResponse]
    /\ fn_in \in SignatureInputs
    /\ fn_out = NotCalled

call_verify_signature ==
    /\ fn_out.fn = "none"
    /\ fn_out' = [fn |-> "verify_signature",
                  result |-> verify_signature(fn_in.payload_body, fn_in.signature, fn_in.token)]
    /\ UNCHANGED <<env, pc, request, frame, outbox, response, fn_in>>

NextSig == call_verify_signature

SpecSig == InitSig /\ [][NextSig]_vars

(***************************************************************************)
(* C13: verify_signature returns true exactly when the presented signature *)
(* is the hex HMAC-SHA512 of the body under the token, and returns false,  *)
(* without raising, for every other presented signature.                   *)
(***************************************************************************)
C13_VerifySignatureTotal ==
    fn_out.fn = "verify_signature" =>
        /\ fn_out.result.exc = "none"
        /\ fn_out.result.val =
               (fn_in.signature = HmacSha512Hex(fn_in.token, fn_in.payload_body))

(***************************************************************************)
(* C14: a request that ends with the missing-payload error, the            *)
(* missing-workspace error or a signature failure has posted no run        *)
(* document; a run document is only posted for a non-empty, non-probe      *)
(* payload that passed the signature policy and yielded a workspace id.    *)
(***************************************************************************)
ErrorText(w) ==
    IF "error" \in DOMAIN response[w].body THEN response[w].body["error"] ELSE ""

EndedInValidationError(w) ==
    /\ pc[w] = "done"
    /\ \/ response[w].status = 400 /\ ErrorText(w) = "No payload provided"
       \/ response[w].status = 400 /\ ErrorText(w) = MissingWorkspaceMsg
       \/ response[w].status = 401

C14_FailFast ==
    \A w \in Workers :
        /\ EndedInValidationError(w) => outbox[w] = <<>>
        /\ outbox[w] # <<>> =>
               /\ HasPayload(request[w])
               /\ ~IsProbe(request[w].data.doc)
               /\ SecretSet => HeaderValid(request[w])
               /\ WorkspaceResolvable(request[w].data.doc)

\* a notification with a resolvable workspace was refused for its signature
C14_Witness ==
    \E w \in Workers :
        /\ Answered(w, 401)
        /\ HasPayload(request[w])
        /\ WorkspaceResolvable(request[w].data.doc)
        /\ HeaderSent(request[w]) /\ ~HeaderValid(request[w])
        /\ outbox[w] = <<>>

(***************************************************************************)
(* Several requests in flight: the threaded server runs one handler per    *)
(* request; the handlers interleave at the outbound call.                  *)
(***************************************************************************)
MaxInFlight == 2

ConcWorkers == 1..MaxInFlight

ConcEnvironments ==
    {("TFE_TOKEN" :> "tfe-token") @@ n @@ a :
        n \in Opt("TFE_NOTIFICATION_TOKEN", {"secret"}),
        a \in Opt("TFE_AUTO_APPLY", {"TRUE"})}

DriftBody == Encoded(JObj(("workspace_id" :> JStr("ws-123"))
                 @@ ("trigger" :> JStr("run:needs_attention"))
                 @@ ("message" :> JStr("drift detected"))))

TeardownBody == Encoded(JObj(("workspace_id" :> JStr("ws-1"))
                    @@ ("run_status" :> JStr("errored"))
                    @@ ("run_message" :> JStr("please teardown env"))))

\* requests that differ in endpoint, workspace, message, signature and outcome
ConcRequests ==
    {[endpoint |-> "/webhook/apply", json_mimetype |-> TRUE, data |-> DriftBody,
      headers |-> EmptyMap],
     [endpoint |-> "/webhook/destroy", json_mimetype |-> TRUE, data |-> DriftBody,
      headers |-> SignatureHeader :> HmacSha512Hex("secret", DriftBody)],
     [endpoint |-> "/webhook/destroy", json_mimetype |-> TRUE,
      data |-> Encoded(JObj("run_id" :> JStr("run-abc"))), headers |-> EmptyMap],
     [endpoint |-> "/webhook/conditional", json_mimetype |-> TRUE, data |-> TeardownBody,
      headers |-> SignatureHeader :> HmacSha512Hex("secret", TeardownBody)],
     [endpoint |-> "/webhook/conditional", json_mimetype |-> TRUE, data |-> DriftBody,
      headers |-> SignatureHeader :> Text("deadbeef", TRUE)],
     [endpoint |-> "/webhook/apply", json_mimetype |-> TRUE,
      data |-> Encoded(JObj("notifications" :>
                  JArr(<<JObj("trigger" :> JStr("verification"))>>))),
      headers |-> EmptyMap]}

InitConc ==
    /\ env \in ConcEnvironments
    /\ pc = [w \in ConcWorkers |-> "idle"]
    /\ request = [w \in ConcWorkers |-> NoRequest]
    /\ frame = [w \in ConcWorkers |-> NoFrame]
    /\ outbox = [w \in ConcWorkers |-> <<>>]
    /\ response = [w \in ConcWorkers |-> NoResponse]
    /\ fn_in = JNull
    /\ fn_out = Ok(JNull)

\* a free thread takes the next request
ReceiveConc(w) ==
    /\ pc[w] = "idle"
    /\ \E r \in ConcRequests : request' = [request EXCEPT ![w] = r]
    /\ pc' = [pc EXCEPT ![w] = "received"]
    /\ UNCHANGED <<env, frame, outbox, response, fn_in, fn_out>>

NextConc ==
    \E w \in ConcWorkers :
        \/ ReceiveConc(w)
        \/ trigger_apply(w)
        \/ trigger_destroy(w)
        \/ trigger_conditional(w)
        \/ create_run_returns(w)
        \/ Release(w)

SpecConc == InitConc /\ [][NextConc]_vars

\* one request handled from start to end with nothing else in flight: the
\* run documents it posts and the response it gets
HandleAlone(e, req, legacyFlask, outcome) ==
    LET pre == webhook_preamble(req, e, legacyFlask) IN
    IF pre.kind = "respond" THEN [outbox |-> <<>>, response |-> pre]
    ELSE LET action == CASE req.endpoint = "/webhook/apply"   -> Ok("apply")
                         [] req.endpoint = "/webhook/destroy" -> Ok("destroy")
                         [] req.endpoint = "/webhook/conditional" ->
                                conditional_action(pre.payload)
         IN
    IF Raised(action) THEN [outbox |-> <<>>, response |-> handle_exception(action)]
    ELSE LET run == process_notification(pre.payload, action.val, pre.config.auto_apply) IN
    IF Raised(run) THEN [outbox |-> <<>>, response |-> handle_exception(run)]
    ELSE LET result == create_run_result(outcome) IN
         [outbox   |-> <<run.val>>,
          response |-> IF Raised(result) THEN handle_exception(result)
                       ELSE success_response(req.endpoint, action.val, result.val)]

(***************************************************************************)
(* C15: under every interleaving of the in-flight requests, the run        *)
(* document a request posts and the response it gets are those of the      *)
(* same request handled alone (same environment, same remote answer).      *)
(***************************************************************************)
C15_Independent ==
    \A w \in DOMAIN pc :
        /\ pc[w] \in {"idle", "received"} =>
               outbox[w] = <<>> /\ response[w] = NoResponse
        /\ pc[w] = "calling" =>
               /\ response[w] = NoResponse
               /\ \E legacyFlask \in BOOLEAN :
                      outbox[w] = HandleAlone(env, request[w], legacyFlask, "created").outbox
        /\ pc[w] = "done" =>
               \E legacyFlask \in BOOLEAN :
                   LET outcome == IF frame[w].outcome = "none" THEN "created"
                                  ELSE frame[w].outcome
                       alone   == HandleAlone(env, request[w], legacyFlask, outcome)
                   IN  /\ outbox[w] = alone.outbox
                       /\ response[w] = alone.response
                       /\ frame[w].outcome = "none" <=> alone.outbox = <<>>

\* two different requests overlapped and each posted its own run document
C15_Witness ==
    \E v \in DOMAIN pc : \E w \in DOMAIN pc :
        /\ v # w
        /\ pc[v] = "done" /\ pc[w] = "calling"
        /\ request[v] # request[w]
        /\ Answered(v, 200)
        /\ Len(outbox[v]) = 1 /\ Len(outbox[w]) = 1
        /\ outbox[v][1] # outbox[w][1]

====
